---------------------------- MODULE Spec2Model ----------------------------
(***************************************************************************)
(* Model of the rank / cumulative-mean engine and of the exceedance        *)
(* classification of tas_to_date (scripts/core/core_functions.py and       *)
(* scripts/core/plot_functions.py).                                        *)
(*                                                                         *)
(* A store (an xarray Dataset) is a record: the year axis, the historical  *)
(* grid tas_base (one row per year of the axis, one cell per day of the    *)
(* year), the target series tas, the rank grid and the attribute           *)
(* dictionary.  A temperature is an exact rational <<n, d>>, d > 0, in    *)
(* lowest terms; the undefined value NaN is <<0, 0>>.  The day-of-year     *)
(* axis 1..365 of the program is scaled down to 1..NDays.                  *)
(***************************************************************************)
EXTENDS Integers, Sequences, FiniteSets, TLC

\* ------------------------------------------------------------ bounds ----
\* length of the day-of-year axis (365 in the program)
NDays == 3
\* number of years in the historical archive
NYears == 2
Days == 1..NDays

\* ------------------------------------------------------------ values ----
NaN == <<0, 0>>

isfinite(v) == v[2] # 0

Abs(n) == IF n < 0 THEN -n ELSE n

RECURSIVE GCD(_, _)
GCD(a, b) == IF b = 0 THEN a ELSE GCD(b, a % b)

\* the rational n/d (d > 0) in lowest terms
Frac(n, d) == LET g == GCD(Abs(n), d) IN <<n \div g, d \div g>>

Num(n) == <<n, 1>>

\* float arithmetic: any operand NaN gives NaN
Add(a, b) ==
    IF isfinite(a) /\ isfinite(b)
    THEN Frac(a[1] * b[2] + b[1] * a[2], a[2] * b[2])
    ELSE NaN

Sub(a, b) ==
    IF isfinite(a) /\ isfinite(b)
    THEN Frac(a[1] * b[2] - b[1] * a[2], a[2] * b[2])
    ELSE NaN

\* a * (n / d) for integers n >= 0, d > 0
Scaled(a, n, d) == IF isfinite(a) THEN Frac(a[1] * n, a[2] * d) ELSE NaN

\* float comparison: FALSE as soon as one operand is NaN
Geq(a, b) == isfinite(a) /\ isfinite(b) /\ a[1] * b[2] >= b[1] * a[2]

Leq(a, b) == isfinite(a) /\ isfinite(b) /\ a[1] * b[2] <= b[1] * a[2]

Greater(a, b) == isfinite(a) /\ isfinite(b) /\ a[1] * b[2] > b[1] * a[2]

\* the order numpy sorts floats in: ascending, NaN after every number
SortLeq(a, b) == ~isfinite(b) \/ Leq(a, b)

NaNRow == [d \in Days |-> NaN]


\* ------------------------------------------------------------ inputs ----
\* the regions of the archive that are loaded
Regions == {"global"}

\* the year axis of the archive: NYears years with holes between them
ArchiveYears == [i \in 1..NYears |-> 2 * i]

\* the years a caller may request: below, inside, in a hole of and above the axis
RequestYears == 1..(2 * NYears + 1)

\* one archived year: a rising series, a flat one, and a rising one with a gap
RisingRow == [d \in Days |-> Num(2 * d)]

FlatRow == [d \in Days |-> Num(4)]

GapRow == [d \in Days |-> IF d = 2 THEN NaN ELSE Num(2 * d)]

HistRows == {RisingRow, FlatRow, GapRow}

\* the near-real-time series of the running year: data up to the day before
\* the last one, a complete warm year, a series with a gap, no data at all
PartialRow == [d \in Days |-> IF d < NDays THEN Num(2 * d + 2) ELSE NaN]

WarmRow == [d \in Days |-> Num(2 * d + 2)]

HoleRow == [d \in Days |-> IF d = 2 THEN NaN ELSE Num(3)]

CurrentRows == {PartialRow, WarmRow, HoleRow, NaNRow}

\* ------------------------------------------------------------- store ----
\* attribute values of a key that is not in the attribute dictionary
NoYear == 0

NoDoy == -1

NoRegion == ""

NoAttrs ==
    [region |-> NoRegion, year |-> NoYear, last_doy |-> NoDoy,
     cummean |-> FALSE, show_unseen |-> FALSE]

\* the day-of-year an in-sample year runs to (365 on the program's axis)
FullDoy == NDays

\* the last day-of-year a date can be built for (366 on the program's axis)
LeapDoy == NDays + 1

Max(S) == CHOOSE x \in S : \A y \in S : y <= x

\* load_base: the archive of a region, as preprocess_region saved it
load_base(region, rows) ==
    [year_axis |-> ArchiveYears,
     tas_base  |-> rows,
     has_tas   |-> FALSE,
     tas       |-> NaNRow,
     has_rank  |-> FALSE,
     rank      |-> << >>,
     attrs     |-> [NoAttrs EXCEPT !.region = region]]

BaseStores ==
    {load_base(region, rows) : region \in Regions, rows \in [1..NYears -> HistRows]}

\* position of a year on a year axis, 0 when the label is not on it (KeyError)
YearIndex(axis, year) ==
    IF \E i \in 1..Len(axis) : axis[i] = year
    THEN CHOOSE i \in 1..Len(axis) : axis[i] = year
    ELSE 0

\* add_target_year works on ds_base in place; arg is ds_base after the call
add_target_year(ds_base, year, current) ==
    LET i      == YearIndex(ds_base.year_axis, year)
        finite == {d \in Days : isfinite(current[d])}
        da     == IF i # 0 THEN ds_base.tas_base[i] ELSE current
        doy    == IF i # 0 THEN FullDoy ELSE Max(finite)
    IN  IF i = 0 /\ finite = {}
        THEN [arg |-> ds_base, err |-> "IndexError"]
        ELSE [arg |-> [ds_base EXCEPT !.has_tas = TRUE,
                                      !.tas = da,
                                      !.attrs.year = year,
                                      !.attrs.last_doy = doy],
              err |-> "none"]

\* --------------------------------------------------------- truncator ----
\* set_last_doy with a cut that also drops the day stored as last_doy
set_last_doy_dropping_last(ds, doy) ==
    IF ~ds.has_tas
    THEN [arg |-> ds, ret |-> ds, err |-> "KeyError"]
    ELSE [arg |-> ds,
          ret |-> [ds EXCEPT !.tas = [d \in Days |->
                                         IF d <= doy /\ d < ds.attrs.last_doy
                                         THEN ds.tas[d] ELSE NaN],
                             !.attrs.last_doy = doy],
          err |-> "none"]

\* set_last_doy without the copy: the cut is made in the store passed in
set_last_doy_in_place(ds, doy) ==
    LET cut == [ds EXCEPT !.tas = [d \in Days |-> IF d <= doy THEN ds.tas[d] ELSE NaN],
                          !.attrs.last_doy = doy]
    IN  IF ~ds.has_tas
        THEN [arg |-> ds, ret |-> ds, err |-> "KeyError"]
        ELSE [arg |-> cut, ret |-> cut, err |-> "none"]

\* set_last_doy copies ds and masks the target after doy; arg is the input
\* store after the call, ret the returned store
set_last_doy(ds, doy) ==
    IF ~ds.has_tas
    THEN [arg |-> ds, ret |-> ds, err |-> "KeyError"]
    ELSE [arg |-> ds,
          ret |-> [ds EXCEPT !.tas = [d \in Days |-> IF d <= doy THEN ds.tas[d] ELSE NaN],
                             !.attrs.last_doy = doy],
          err |-> "none"]

\* ------------------------------------------------ cumulative transform ----
\* Dataset.cumsum skips missing values (skipna for floats): a NaN adds 0
RECURSIVE cumsum(_, _)
cumsum(row, d) ==
    IF d = 0
    THEN Num(0)
    ELSE Add(cumsum(row, d - 1), IF isfinite(row[d]) THEN row[d] ELSE Num(0))

\* the cumulative sum without the division by the day of the year
CumSumRow(row) == [d \in Days |-> cumsum(row, d)]

\* ds.cumsum("dayofyear") / ds["dayofyear"] on one row of one variable
CumMeanRow(row) == [d \in Days |-> Scaled(cumsum(row, d), 1, d)]

CumMeanGrid(grid) == [i \in 1..Len(grid) |-> CumMeanRow(grid[i])]

\* calc_cummean with the attribute dictionary shared between input and result
calc_cummean_shared_attrs(ds) ==
    IF ds.attrs.last_doy = NoDoy \/ ~ds.has_tas
    THEN [arg |-> ds, ret |-> ds, err |-> "KeyError"]
    ELSE [arg |-> [ds EXCEPT !.attrs.cummean = TRUE],
          ret |-> [ds EXCEPT !.tas_base = CumMeanGrid(ds.tas_base),
                             !.tas = [d \in Days |-> IF d <= ds.attrs.last_doy
                                                     THEN CumMeanRow(ds.tas)[d]
                                                     ELSE NaN],
                             !.rank = CumMeanGrid(ds.rank),
                             !.attrs.cummean = TRUE],
          err |-> "none"]

\* calc_cummean without the truncation at the stored last_doy
calc_cummean_uncut(ds) ==
    IF ds.attrs.last_doy = NoDoy \/ ~ds.has_tas
    THEN [arg |-> ds, ret |-> ds, err |-> "KeyError"]
    ELSE [arg |-> ds,
          ret |-> [ds EXCEPT !.tas_base = CumMeanGrid(ds.tas_base),
                             !.tas = CumMeanRow(ds.tas),
                             !.rank = CumMeanGrid(ds.rank),
                             !.attrs.cummean = TRUE],
          err |-> "none"]

\* calc_cummean: every data variable is transformed, the target is truncated
\* again at the stored last_doy, the attributes are copied and cummean is set
calc_cummean(ds) ==
    IF ds.attrs.last_doy = NoDoy \/ ~ds.has_tas
    THEN [arg |-> ds, ret |-> ds, err |-> "KeyError"]
    ELSE LET attrs == ds.attrs
             mean  == [ds EXCEPT !.tas_base = CumMeanGrid(ds.tas_base),
                                 !.tas = CumMeanRow(ds.tas),
                                 !.rank = CumMeanGrid(ds.rank),
                                 !.attrs = NoAttrs]
             cut   == set_last_doy(mean, attrs.last_doy).ret
         IN  [arg |-> ds,
              ret |-> [cut EXCEPT !.attrs = [attrs EXCEPT !.cummean = TRUE]],
              err |-> "none"]

\* ----------------------------------------------------------- rank engine ----
Perms(n) == {p \in [1..n -> 1..n] : \A i, j \in 1..n : i # j => p[i] # p[j]}

\* np.argsort of one column: any order of the indices that sorts the values
\* ascending with NaN last; the order among equal values is the sort's choice
argsort(col) ==
    {p \in Perms(Len(col)) :
        \A k \in 1..(Len(col) - 1) : SortLeq(col[p[k]], col[p[k + 1]])}

\* the double argsort without the inversion: rank 1 for the lowest value
RankColumnNotInverted(p) ==
    [i \in 1..Len(p) |-> Num(CHOOSE k \in 1..Len(p) : p[k] = i)]

\* size - argsort(argsort(col)) for one outcome p of the inner argsort
RankColumn(p) ==
    [i \in 1..Len(p) |-> Num(Len(p) - ((CHOOSE k \in 1..Len(p) : p[k] = i) - 1))]

Column(da, d) == [i \in 1..Len(da) |-> da[i][d]]

\* the rank columns of days 1..d, one choice of the sort per day
RECURSIVE RankColumns(_, _)
RankColumns(da, d) ==
    IF d = 0
    THEN {<< >>}
    ELSE {Append(cols, RankColumn(p)) : cols \in RankColumns(da, d - 1),
                                        p \in argsort(Column(da, d))}

\* calc_rank decides on its own whether the target has to be appended
OutOfSample(ds) == ds.attrs.year > ds.year_axis[Len(ds.year_axis)]

\* the grid that is ranked
RankInput(ds) == IF OutOfSample(ds) THEN Append(ds.tas_base, ds.tas) ELSE ds.tas_base

\* the year axis of the rank grid
RankAxis(ds) ==
    IF OutOfSample(ds) THEN Append(ds.year_axis, ds.attrs.year) ELSE ds.year_axis

\* calc_rank for one outcome cols of the sorts; xr.merge joins the year axes
\* (the historical grid gets an undefined row for an appended year) and
\* refuses a rank variable that differs from the one the store already has
calc_rank(ds, cols) ==
    IF ds.attrs.year = NoYear
    THEN [arg |-> ds, ret |-> ds, err |-> "KeyError"]
    ELSE LET da   == RankInput(ds)
             rank == [i \in 1..Len(da) |-> [d \in Days |-> cols[d][i]]]
             base == IF OutOfSample(ds) THEN Append(ds.tas_base, NaNRow) ELSE ds.tas_base
         IN  IF ds.has_rank /\ \E i \in 1..Len(ds.rank) : ds.rank[i] # rank[i]
             THEN [arg |-> ds, ret |-> ds, err |-> "MergeError"]
             ELSE [arg |-> ds,
                   ret |-> [ds EXCEPT !.year_axis = RankAxis(ds),
                                      !.tas_base = base,
                                      !.has_rank = TRUE,
                                      !.rank = rank],
                   err |-> "none"]

\* ------------------------------------------------------------ classifier ----
\* thresholds are counted in steps of the slider: 1.0 is Tenth, 0.5 is 5
Tenth == 10

\* the values show_exceedance is called with
Exceedances == {-11, -10, -5, 0, 5, 10, 11}

Finite(col) == {i \in 1..Len(col) : isfinite(col[i])}

\* reductions over the year axis skip missing values; NaN when none is defined
nanmax(col) ==
    IF Finite(col) = {}
    THEN NaN
    ELSE col[CHOOSE i \in Finite(col) : \A j \in Finite(col) : Geq(col[i], col[j])]

nanmin(col) ==
    IF Finite(col) = {}
    THEN NaN
    ELSE col[CHOOSE i \in Finite(col) : \A j \in Finite(col) : Leq(col[i], col[j])]

\* the defined values of a column in ascending order
Sorted(col) ==
    LET p == CHOOSE q \in argsort(col) : TRUE
    IN  [k \in 1..Cardinality(Finite(col)) |-> col[p[k]]]

\* linear interpolation at q = tenths / Tenth in the ascending values x
Interpolate(x, tenths) ==
    LET pos  == (Len(x) - 1) * tenths
        lo   == pos \div Tenth
        part == pos % Tenth
    IN  IF Len(x) = 0 THEN NaN
        ELSE IF part = 0 THEN x[lo + 1]
        ELSE Add(x[lo + 1], Scaled(Sub(x[lo + 2], x[lo + 1]), part, Tenth))

\* nanquantile of a column, q = tenths / Tenth in [0, 1]
quantile(col, tenths) == Interpolate(Sorted(col), tenths)

\* the middle value, or the mean of the two middle values, of ascending x
Middle(x) ==
    IF Len(x) = 0 THEN NaN
    ELSE IF Len(x) % 2 = 1 THEN x[(Len(x) + 1) \div 2]
    ELSE Scaled(Add(x[Len(x) \div 2], x[(Len(x) \div 2) + 1]), 1, 2)

\* nanmedian of a column
median(col) == Middle(Sorted(col))

\* the whole historical grid as one column (a reduction over all dimensions)
AllCells(grid) ==
    [k \in 1..(Len(grid) * NDays) |-> grid[((k - 1) \div NDays) + 1][((k - 1) % NDays) + 1]]

\* ds.sel(year=ds["year"] != year): the rows of all years but the target year
RECURSIVE KeepRows(_, _, _)
KeepRows(seq, keep, k) ==
    IF k = 0 THEN << >>
    ELSE IF keep[k] THEN Append(KeepRows(seq, keep, k - 1), seq[k])
    ELSE KeepRows(seq, keep, k - 1)

\* the comparison pool without the exclusion of the target year
AllYears(ds) == ds.tas_base

OtherYears(ds) ==
    KeepRows(ds.tas_base,
             [i \in 1..Len(ds.tas_base) |-> ds.year_axis[i] # ds.attrs.year],
             Len(ds.tas_base))

\* the comparison without the branch for 0, which then takes the last branch
ExceedsWithoutZero(value, pool, q) ==
    IF q = Tenth THEN Geq(value, nanmax(pool))
    ELSE IF q = -Tenth THEN Leq(value, nanmin(pool))
    ELSE IF q > 0 THEN Geq(value, quantile(pool, q))
    ELSE Leq(value, quantile(pool, Abs(q)))

\* the comparison of one day in mark_exceedance, branch by branch
Exceeds(value, pool, q) ==
    IF q = Tenth THEN Geq(value, nanmax(pool))
    ELSE IF q = -Tenth THEN Leq(value, nanmin(pool))
    ELSE IF q = 0 THEN Geq(value, nanmin(pool))
    ELSE IF q > 0 THEN Geq(value, quantile(pool, q))
    ELSE Leq(value, quantile(pool, Abs(q)))

\* the text of the label: flagged days / days with a target value
Marked(mask, tas) ==
    [mask |-> mask,
     matching |-> Cardinality(mask),
     defined |-> Cardinality({d \in Days : isfinite(tas[d])}),
     show_record |-> TRUE,
     err |-> "none"]

\* the days mark_exceedance flags among the rows pool of the other years
ExceedanceDays(tas, pool, q) ==
    {d \in Days : Exceeds(tas[d], Column(pool, d), q)}

\* mark_exceedance: the flagged days, the two counts of the label, and the
\* show_record attribute, which is set on the selection made inside only
mark_exceedance(ds, q) ==
    IF Abs(q) > Tenth
    THEN [mask |-> {}, matching |-> 0, defined |-> 0, show_record |-> FALSE,
          err |-> "ValueError"]
    ELSE Marked(ExceedanceDays(ds.tas, OtherYears(ds), q), ds.tas)

\* the days of the target at or above top
UnseenDays(tas, top) == {d \in Days : Geq(tas[d], top)}

\* the marking itself: it sets show_unseen on ds and returns the days
Unseen(ds, max_, always) ==
    IF max_ # {} \/ always # 0
    THEN [arg |-> [ds EXCEPT !.attrs.show_unseen = TRUE],
          returned |-> TRUE, days |-> max_]
    ELSE [arg |-> ds, returned |-> FALSE, days |-> {}]

\* mark_unseen: days at or above the maximum of the whole historical grid;
\* always is the threshold value itself, so it counts as set unless it is 0
mark_unseen(ds, always) ==
    Unseen(ds, UnseenDays(ds.tas, nanmax(AllCells(ds.tas_base))), always)

\* the summary of day doy_last for the row of the target year in the rank grid
LastDay(ds, row, doy_last, purple) ==
    [anomaly |-> Sub(ds.tas[doy_last], median(Column(ds.tas_base, doy_last))),
     rank    |-> ds.rank[row][doy_last],
     total   |-> Len(ds.year_axis),
     color   |-> IF purple THEN "purple" ELSE "darkred",
     err     |-> "none"]

\* annotate_last_day: anomaly, rank and total of the day last_doy; the
\* selections of the day and of the year fail for a label that is not there
annotate_last_day(ds, unseen_returned, unseen_days) ==
    IF /\ ds.attrs.last_doy \in Days
       /\ ds.has_rank
       /\ YearIndex(ds.year_axis, ds.attrs.year) # 0
    THEN LastDay(ds, YearIndex(ds.year_axis, ds.attrs.year), ds.attrs.last_doy,
                 unseen_returned /\ ds.attrs.last_doy \in unseen_days)
    ELSE [anomaly |-> NaN, rank |-> NaN, total |-> 0, color |-> "none",
          err |-> "KeyError"]

\* what one call of plot_main leaves behind for the renderer
NoCls ==
    [marked |-> FALSE, mask |-> {}, matching |-> 0, defined |-> 0,
     show_record |-> FALSE, unseen_returned |-> FALSE, unseen |-> {},
     annotated |-> FALSE, anomaly |-> NaN, rank |-> NaN, total |-> 0,
     color |-> "none"]

\* the two markings as the renderer sees them
Marks(ex, un) ==
    [NoCls EXCEPT !.marked = TRUE,
                  !.mask = ex.mask,
                  !.matching = ex.matching,
                  !.defined = ex.defined,
                  !.show_record = ex.show_record,
                  !.unseen_returned = un.returned,
                  !.unseen = un.days]

\* the annotation of the last day added to the markings
Annotated(store, marks, last) ==
    [arg |-> store,
     cls |-> IF last.err = "none"
             THEN [marks EXCEPT !.annotated = TRUE,
                                !.anomaly = last.anomaly,
                                !.rank = last.rank,
                                !.total = last.total,
                                !.color = last.color]
             ELSE marks,
     err |-> last.err]

\* the part of plot_target that runs for a threshold within [-1, 1]
Classified(ex, un) ==
    Annotated(un.arg, Marks(ex, un), annotate_last_day(un.arg, un.returned, un.days))

\* plot_target: both markings when the threshold is within [-1, 1], then the
\* annotation of the last day; arg is the plotted store after the call
plot_target(ds, show_exceedance) ==
    IF Abs(show_exceedance) <= Tenth
    THEN Classified(mark_exceedance(ds, show_exceedance),
                    mark_unseen(ds, show_exceedance))
    ELSE Annotated(ds, NoCls, annotate_last_day(ds, FALSE, {}))

\* plot_base reads the attributes and builds the date of the title from
\* year and last_doy; strptime knows the days 1..366 only
plot_base(ds) ==
    IF ds.attrs.year = NoYear \/ ds.attrs.last_doy = NoDoy THEN "KeyError"
    ELSE IF ds.attrs.last_doy \notin 1..LeapDoy THEN "ValueError"
    ELSE "none"

\* plot_legend looks up the last year with a value on day 1
plot_legend(target) ==
    IF target.err # "none" THEN target
    ELSE IF Finite(Column(target.arg.tas_base, 1)) = {}
         THEN [target EXCEPT !.err = "IndexError"]
         ELSE target

\* plot_main: plot_base, plot_target, plot_legend; the first failure ends it
plot_main(ds, show_exceedance) ==
    IF plot_base(ds) # "none"
    THEN [arg |-> ds, cls |-> NoCls, err |-> plot_base(ds)]
    ELSE plot_legend(plot_target(ds, show_exceedance))

\* --------------------------------------------------------- state machine ----
\* The three callers of the engine, each running its calls in its own order:
\*   app                the plot handler of app.py: add_target_year,
\*                      set_last_doy, calc_cummean (aggregation "Mittelwert"),
\*                      calc_rank, plot_main with the slider's threshold
\*   load_plot_single   add_target_year, set_last_doy (when a day is given),
\*                      calc_cummean (for ds_cum), calc_rank, plot_main
\*   load_plot_all      add_target_year, calc_cummean (for ds_cum), calc_rank,
\*                      then per day set_last_doy and plot_main
\* A run follows one store: in the callers that hold ds and ds_cum side by
\* side it is ds when CalcCummean is skipped and ds_cum when it is taken, and
\* in the per-day loop it is the store of one iteration.
\*
\* driver  the caller
\* ds      the store the caller's next call works on (the result of the last)
\* inp     the store that was passed to the last call, as the call left it
\* call    the last call: its name and its numeric argument
\* cls     what the last plot_main call computed
\* err     the exception that ended the run, "none" while it runs
\* ncalls  the number of core functions a caller outside the three drivers
\*         has applied to the store since load_base
\* args    the command line main.py was started with
\* todo    the regions main.py's loop has not yet started on
\* done    the regions main.py's loop has completed
\* files   the output files that exist on disk
\* written the files the last batch operation wrote
\* job     the arguments of the last batch operation
VARIABLES driver, ds, inp, call, cls, err, ncalls, args, todo, done,
          files, written, job

vars == <<driver, ds, inp, call, cls, err, ncalls, args, todo, done,
          files, written, job>>

\* the state of main.py
batch == <<args, todo, done>>

\* the state of the disk
disk == <<files, written, job>>

\* the state that the three drivers leave alone
apart == <<ncalls, batch, disk>>

\* main.py is not running
NoArgs == [year |-> NoYear, regions |-> << >>, doy |-> NoDoy, overwrite |-> FALSE]

\* no batch operation has run
NoJob ==
    [region |-> NoRegion, year |-> NoYear, last_doy |-> NoDoy, kind |-> "",
     stepsize |-> "", overwrite |-> FALSE, produce_gif |-> FALSE, raises |-> "none"]

\* neither main.py nor a batch operation has run
NoBatch ==
    /\ args = NoArgs
    /\ todo = << >>
    /\ done = {}
    /\ files = {}
    /\ written = {}
    /\ job = NoJob

Drivers == {"app", "load_plot_single", "load_plot_all"}

\* the days a command line may name: also none of the axis
DoyArgs == 0..(LeapDoy + 1)

\* the threshold plot_main uses when the caller passes none (1.1)
DefaultExceedance == 11

Running == err = "none"

Init ==
    /\ driver \in Drivers
    /\ ds \in BaseStores
    /\ inp = ds
    /\ call = [name |-> "load_base", val |-> 0]
    /\ cls = NoCls
    /\ err = "none"
    /\ ncalls = 0
    /\ NoBatch

AddTargetYear ==
    /\ Running
    /\ call.name = "load_base"
    /\ \E year \in RequestYears, current \in CurrentRows :
          LET r == add_target_year(ds, year, current)
          IN  /\ ds' = r.arg
              /\ inp' = r.arg
              /\ err' = r.err
              /\ call' = [name |-> "add_target_year", val |-> year]
    /\ cls' = NoCls
    /\ UNCHANGED <<driver, apart>>

\* the cutoffs the caller can pass at this point
Cutoffs ==
    IF driver = "app" THEN 1..FullDoy
    ELSE IF driver = "load_plot_single" THEN DoyArgs
    ELSE 1..ds.attrs.last_doy

SetLastDoy ==
    /\ Running
    /\ IF driver = "load_plot_all"
       THEN call.name = "calc_rank"
       ELSE call.name = "add_target_year"
    /\ \E doy \in Cutoffs :
          LET r == set_last_doy(ds, doy)
          IN  /\ ds' = r.ret
              /\ inp' = r.arg
              /\ err' = r.err
              /\ call' = [name |-> "set_last_doy", val |-> doy]
    /\ cls' = NoCls
    /\ UNCHANGED <<driver, apart>>

CalcCummean ==
    /\ Running
    /\ ~ds.has_rank
    /\ CASE driver = "app" -> call.name = "set_last_doy"
         [] driver = "load_plot_single" -> call.name \in {"add_target_year", "set_last_doy"}
         [] OTHER -> call.name = "add_target_year"
    /\ LET r == calc_cummean(ds)
       IN  /\ ds' = r.ret
           /\ inp' = r.arg
           /\ err' = r.err
    /\ call' = [name |-> "calc_cummean", val |-> 0]
    /\ cls' = NoCls
    /\ UNCHANGED <<driver, apart>>

CalcRank ==
    /\ Running
    /\ CASE driver = "app" -> call.name \in {"set_last_doy", "calc_cummean"}
         [] driver = "load_plot_single" ->
                call.name \in {"add_target_year", "set_last_doy", "calc_cummean"}
         [] OTHER -> call.name \in {"add_target_year", "calc_cummean"}
    /\ \E cols \in RankColumns(RankInput(ds), NDays) :
          LET r == calc_rank(ds, cols)
          IN  /\ ds' = r.ret
              /\ inp' = r.arg
              /\ err' = r.err
    /\ call' = [name |-> "calc_rank", val |-> 0]
    /\ cls' = NoCls
    /\ UNCHANGED <<driver, apart>>

\* the thresholds the caller can pass at this point
Thresholds == IF driver = "app" THEN Exceedances ELSE {DefaultExceedance}

PlotMain ==
    /\ Running
    /\ ds.has_rank
    /\ IF driver = "load_plot_all"
       THEN call.name = "set_last_doy"
       ELSE call.name = "calc_rank"
    /\ \E show_exceedance \in Thresholds :
          LET r == plot_main(ds, show_exceedance)
          IN  /\ ds' = r.arg
              /\ inp' = r.arg
              /\ cls' = r.cls
              /\ err' = r.err
              /\ call' = [name |-> "plot_main", val |-> show_exceedance]
    /\ UNCHANGED <<driver, apart>>

Next == AddTargetYear \/ SetLastDoy \/ CalcCummean \/ CalcRank \/ PlotMain

Spec == Init /\ [][Next]_vars

\* ------------------------------------------------- the core functions ----
\* A caller of core_functions.py that is none of the three drivers: it loads
\* a store and applies add_target_year, set_last_doy, calc_cummean and
\* calc_rank to it in an order of its own, each call on the result of the
\* one before.  The functions check nothing about the order themselves.
\*
\* number of calls such a caller makes on one loaded store
MaxCalls == 3

\* the years such a caller asks for: the last archived one and the next
CoreYears == {ArchiveYears[NYears], ArchiveYears[NYears] + 1}

\* the near-real-time series such a caller finds
CoreRows == {PartialRow, WarmRow}

CoreInit ==
    /\ driver = "core"
    /\ ds \in BaseStores
    /\ inp = ds
    /\ call = [name |-> "load_base", val |-> 0]
    /\ cls = NoCls
    /\ err = "none"
    /\ ncalls = 0
    /\ NoBatch

\* one more call may be made
CoreCall ==
    /\ Running
    /\ ncalls < MaxCalls
    /\ ncalls' = ncalls + 1
    /\ cls' = NoCls
    /\ UNCHANGED <<driver, batch, disk>>

CoreAddTargetYear ==
    /\ CoreCall
    /\ \E year \in CoreYears, current \in CoreRows :
          LET r == add_target_year(ds, year, current)
          IN  /\ ds' = r.arg
              /\ inp' = r.arg
              /\ err' = r.err
              /\ call' = [name |-> "add_target_year", val |-> year]

CoreSetLastDoy ==
    /\ CoreCall
    /\ \E doy \in DoyArgs :
          LET r == set_last_doy(ds, doy)
          IN  /\ ds' = r.ret
              /\ inp' = r.arg
              /\ err' = r.err
              /\ call' = [name |-> "set_last_doy", val |-> doy]

CoreCalcCummean ==
    /\ CoreCall
    /\ LET r == calc_cummean(ds)
       IN  /\ ds' = r.ret
           /\ inp' = r.arg
           /\ err' = r.err
    /\ call' = [name |-> "calc_cummean", val |-> 0]

CoreCalcRank ==
    /\ CoreCall
    /\ \E cols \in RankColumns(RankInput(ds), NDays) :
          LET r == calc_rank(ds, cols)
          IN  /\ ds' = r.ret
              /\ inp' = r.arg
              /\ err' = r.err
    /\ call' = [name |-> "calc_rank", val |-> 0]

CoreNext == CoreAddTargetYear \/ CoreSetLastDoy \/ CoreCalcCummean \/ CoreCalcRank

SpecCore == CoreInit /\ [][CoreNext]_vars

\* --------------------------------------------------------------- main.py ----
\* The batch driver: one pass of main.py's loop over the requested regions.
\* An exception that a call raises is caught nowhere and ends the process.
\*
\* regions main.py may be asked for (keys of utilities.regions)
MainRegions == {"global", "europe", "austria"}

\* number of regions on one command line
MaxRegions == 2

\* the lists of regions of a command line
RegionLists ==
    UNION {{l \in [1..n -> MainRegions] : \A i, j \in 1..n : i # j => l[i] # l[j]} :
              n \in 1..MaxRegions}

\* no store is loaded
NoStore == [load_base(NoRegion, << >>) EXCEPT !.year_axis = << >>]

\* the parameters a function of core_functions.py is defined with
Parameters(function) ==
    IF function = "load_plot_all"
    THEN {"region", "year", "dpi_ratio", "save_format", "overwrite", "produce_gif"}
    ELSE {"region", "year", "last_doy", "dpi_ratio", "save", "save_format"}

\* the keyword arguments main.py calls it with
Keywords(function) ==
    IF function = "load_plot_all"
    THEN {"region", "year", "overwrite", "language", "show_exceedance"}
    ELSE {"region", "year", "last_doy", "show_exceedance"}

\* the exceptions the run of a driver can end with
DriverErrors == {"KeyError", "IndexError", "ValueError"}

\* how a call of function ends: a keyword that is no parameter is a
\* TypeError before the function's body runs
Calls(function) ==
    IF Keywords(function) \subseteq Parameters(function)
    THEN DriverErrors \cup {"none"}
    ELSE {"TypeError"}

MainInit ==
    /\ driver = "main"
    /\ ds = NoStore
    /\ inp = NoStore
    /\ call = [name |-> "main", val |-> 0]
    /\ cls = NoCls
    /\ err = "none"
    /\ ncalls = 0
    /\ args \in [year : RequestYears, regions : RegionLists,
                 doy : {NoDoy} \cup (1..FullDoy), overwrite : BOOLEAN]
    /\ todo = args.regions
    /\ done = {}
    /\ files = {}
    /\ written = {}
    /\ job = NoJob

\* one iteration of the loop, for the next region of the list: load_plot_all
\* without --day-of-year, else load_plot_single; the loop goes on to the
\* region after it when the call returns
MainRegion ==
    /\ driver = "main"
    /\ Running
    /\ todo # << >>
    /\ LET function == IF args.doy = NoDoy THEN "load_plot_all" ELSE "load_plot_single"
       IN  /\ call' = [name |-> function, val |-> args.year]
           /\ \E e \in Calls(function) :
                 /\ err' = e
                 /\ todo' = Tail(todo)
                 /\ done' = IF e = "none" THEN done \cup {Head(todo)} ELSE done
    /\ UNCHANGED <<driver, ds, inp, cls, ncalls, args, disk>>

MainNext == MainRegion

\* the interpreter goes on with the loop as long as there is a region left
SpecMain == MainInit /\ [][MainNext]_vars /\ WF_vars(MainNext)

\* ------------------------------------------------ the two call orders ----
\* The drivers reach a cumulative, ranked store truncated at a day d from
\* the store s that add_target_year leaves in two orders.
\*
\* load_plot_all: ds_cum = calc_rank(calc_cummean(ds)) before the loop, then
\* set_last_doy(ds_cum, doy) in the iteration of day d; m is calc_cummean(s)
\* and cols the outcome of the sorts of calc_rank
BatchRanked(m, d, cols) == set_last_doy(calc_rank(m, cols).ret, d).ret

\* the store the batch order ranks
BatchMean(s) == calc_cummean(s).ret

\* the plot handler of the app with aggregation "Mittelwert": set_last_doy,
\* calc_cummean, calc_rank; m is calc_cummean(set_last_doy(s, d))
AppRanked(m, cols) == calc_rank(m, cols).ret

\* the store the app order ranks
AppMean(s, d) == calc_cummean(set_last_doy(s, d).ret).ret

OrdersInit ==
    /\ driver = "orders"
    /\ ds \in BaseStores
    /\ inp = ds
    /\ call = [name |-> "load_base", val |-> 0]
    /\ cls = NoCls
    /\ err = "none"
    /\ ncalls = 0
    /\ NoBatch

OrdersAddTargetYear ==
    /\ Running
    /\ call.name = "load_base"
    /\ \E year \in RequestYears, current \in CurrentRows :
          LET r == add_target_year(ds, year, current)
          IN  /\ ds' = r.arg
              /\ inp' = r.arg
              /\ err' = r.err
              /\ call' = [name |-> "add_target_year", val |-> year]
    /\ cls' = NoCls
    /\ UNCHANGED <<driver, apart>>

\* load_plot_all up to the truncated store of the iteration of day d; inp
\* keeps the store add_target_year left
BatchOrder ==
    /\ Running
    /\ call.name = "add_target_year"
    /\ \E d \in 1..ds.attrs.last_doy :
          \E cols \in RankColumns(RankInput(BatchMean(ds)), NDays) :
              /\ ds' = BatchRanked(BatchMean(ds), d, cols)
              /\ call' = [name |-> "load_plot_all", val |-> d]
    /\ inp' = ds
    /\ cls' = NoCls
    /\ UNCHANGED <<driver, err, apart>>

\* the plot handler up to the store it hands to plot_main, the slider at d
AppOrder ==
    /\ Running
    /\ call.name = "add_target_year"
    /\ \E d \in 1..ds.attrs.last_doy :
          \E cols \in RankColumns(RankInput(AppMean(ds, d)), NDays) :
              /\ ds' = AppRanked(AppMean(ds, d), cols)
              /\ call' = [name |-> "plot", val |-> d]
    /\ inp' = ds
    /\ cls' = NoCls
    /\ UNCHANGED <<driver, err, apart>>

OrdersNext == OrdersAddTargetYear \/ BatchOrder \/ AppOrder

SpecOrders == OrdersInit /\ [][OrdersNext]_vars

\* ---------------------------------------------------------- output files ----
\* The batch operations and the files they leave on disk.  A file is the
\* record of what its path is built from.
\*
\* fn_save of preprocess_region: data_path/tas_preprocessed_{region}.nc
Preprocessed(region) ==
    [kind |-> "preprocessed", ext |-> ".nc", region |-> region,
     year |-> NoYear, doy |-> NoDoy, stepsize |-> ""]

\* get_filename: plot_path/region/year/cummean/tas_{cummean}_{region}_{year}_{doy}{ext}
get_filename(region, year, last_doy, cummean, ext) ==
    [kind |-> cummean, ext |-> ext, region |-> region,
     year |-> year, doy |-> last_doy, stepsize |-> ""]

\* the name combine_to_gif derives from the name fn of one figure
GifName(fn, stepsize) == [fn EXCEPT !.ext = ".gif", !.stepsize = stepsize]

\* glob(path/*ext): the figures in the directory of fn
Figures(existing, fn) ==
    {f \in existing : /\ f.kind = fn.kind /\ f.ext = fn.ext
                      /\ f.region = fn.region /\ f.year = fn.year}

\* a test that lets every write through
AlwaysWritten(overwrite, existing, fn) == TRUE

\* the test in front of every write: overwrite or not os.path.isfile(fn)
Guarded(overwrite, existing, fn) == overwrite \/ fn \notin existing

\* preprocess_region: returns at once when the file exists and overwrite is
\* not set, else builds the archive and saves it
preprocess_region(existing, region, overwrite) ==
    IF Guarded(overwrite, existing, Preprocessed(region))
    THEN [written |-> {Preprocessed(region)}, err |-> "none"]
    ELSE [written |-> {}, err |-> "none"]

\* combine_to_gif: convert writes the gif from the figures it is given; with
\* no figure in the directory it writes nothing
combine_to_gif(existing, fn, stepsize, overwrite) ==
    IF Guarded(overwrite, existing, GifName(fn, stepsize)) /\ Figures(existing, fn) # {}
    THEN {GifName(fn, stepsize)}
    ELSE {}

\* the figures of the per-day loop of load_plot_all in the order it saves
\* them: daily, cummean and both of day 1, then of day 2, ...
PlotKinds == <<"daily", "cummean", "both">>

LoopFigures(region, year, last_doy) ==
    [k \in 1..(3 * last_doy) |->
        get_filename(region, year, ((k - 1) \div 3) + 1, PlotKinds[((k - 1) % 3) + 1],
                     ".jpg")]

\* the loop from the k-th figure on, saved being the figures saved before
\* it: a figure is plotted and saved when the test lets it; raises says that
\* plot_main fails for this store, which ends the function at the first
\* figure that is plotted
RECURSIVE SaveFigures(_, _, _, _, _, _)
SaveFigures(existing, figures, overwrite, raises, k, saved) ==
    IF k > Len(figures)
    THEN [written |-> saved, err |-> "none"]
    ELSE IF ~Guarded(overwrite, existing, figures[k])
         THEN SaveFigures(existing, figures, overwrite, raises, k + 1, saved)
         ELSE IF raises = "plot_main"
              THEN [written |-> saved, err |-> "KeyError"]
              ELSE SaveFigures(existing, figures, overwrite, raises, k + 1,
                               saved \cup {figures[k]})

\* the two data files of load_plot_all, named after the full last_doy
DataFiles(region, year, last_doy) ==
    {get_filename(region, year, last_doy, "daily", ".nc"),
     get_filename(region, year, last_doy, "cummean", ".nc")}

\* the three gifs of load_plot_all, each from the figures on disk by then
Gifs(existing, region, year, last_doy, overwrite) ==
    UNION {combine_to_gif(existing, get_filename(region, year, last_doy, kind, ".jpg"),
                          "auto", overwrite) : kind \in {"daily", "cummean", "both"}}

\* load_plot_all after its loop: the data files, then the gifs
AfterLoop(existing, region, year, last_doy, overwrite, produce_gif, loop) ==
    IF loop.err # "none"
    THEN loop
    ELSE [written |->
              loop.written
                \cup {fn \in DataFiles(region, year, last_doy) :
                         Guarded(overwrite, existing, fn)}
                \cup (IF produce_gif
                      THEN Gifs(existing \cup loop.written, region, year, last_doy,
                                overwrite)
                      ELSE {}),
          err |-> "none"]

\* load_plot_all as far as the disk goes: the files it writes and how it
\* ends; a failure while the store is built comes before any file
load_plot_all(existing, region, year, last_doy, overwrite, produce_gif, raises) ==
    IF raises = "add_target_year"
    THEN [written |-> {}, err |-> "IndexError"]
    ELSE AfterLoop(existing, region, year, last_doy, overwrite, produce_gif,
                   SaveFigures(existing, LoopFigures(region, year, last_doy),
                               overwrite, raises, 1, {}))

\* the runs of the batch operations: which year with data up to which day
Runs ==
    {[year |-> ArchiveYears[NYears], last_doy |-> FullDoy]}
      \cup {[year |-> ArchiveYears[NYears] + 1, last_doy |-> d] : d \in Days}

\* how building and plotting the store of a run can end
Raises == {"none", "add_target_year", "plot_main"}

FilesInit ==
    /\ driver = "batch"
    /\ ds = NoStore
    /\ inp = NoStore
    /\ call = [name |-> "none", val |-> 0]
    /\ cls = NoCls
    /\ err = "none"
    /\ ncalls = 0
    /\ args = NoArgs
    /\ todo = << >>
    /\ done = {}
    /\ files = {}
    /\ written = {}
    /\ job = NoJob

\* one more batch operation is run, on the disk as the ones before left it
FilesCall ==
    /\ ncalls < MaxCalls
    /\ ncalls' = ncalls + 1
    /\ UNCHANGED <<driver, ds, inp, cls, batch>>

\* what is written is on disk afterwards, with all that was there
Saved == files' = files \cup written'

PreprocessRegion ==
    /\ FilesCall
    /\ \E region \in Regions, overwrite \in BOOLEAN :
          LET r == preprocess_region(files, region, overwrite)
          IN  /\ written' = r.written
              /\ err' = r.err
              /\ job' = [NoJob EXCEPT !.region = region, !.overwrite = overwrite]
    /\ call' = [name |-> "preprocess_region", val |-> 0]
    /\ Saved

LoadPlotAll ==
    /\ FilesCall
    /\ \E region \in Regions, run \in Runs, overwrite \in BOOLEAN,
          produce_gif \in BOOLEAN, raises \in Raises :
          LET r == load_plot_all(files, region, run.year, run.last_doy, overwrite,
                                 produce_gif, raises)
          IN  /\ written' = r.written
              /\ err' = r.err
              /\ job' = [NoJob EXCEPT !.region = region, !.year = run.year,
                                      !.last_doy = run.last_doy,
                                      !.overwrite = overwrite,
                                      !.produce_gif = produce_gif,
                                      !.raises = raises]
              /\ call' = [name |-> "load_plot_all", val |-> run.year]
    /\ Saved

CombineToGif ==
    /\ FilesCall
    /\ \E region \in Regions, run \in Runs, kind \in {"daily", "cummean", "both"},
          stepsize \in {"auto", "1"}, overwrite \in BOOLEAN :
          /\ written' = combine_to_gif(files,
                                       get_filename(region, run.year, run.last_doy,
                                                    kind, ".jpg"),
                                       stepsize, overwrite)
          /\ job' = [NoJob EXCEPT !.region = region, !.year = run.year,
                                  !.last_doy = run.last_doy, !.kind = kind,
                                  !.stepsize = stepsize, !.overwrite = overwrite]
          /\ call' = [name |-> "combine_to_gif", val |-> run.year]
    /\ err' = "none"
    /\ Saved

FilesNext == PreprocessRegion \/ LoadPlotAll \/ CombineToGif

SpecFiles == FilesInit /\ [][FilesNext]_vars

\* ================================================================ claims ====
\* the last call was name and it returned
Returned(name) == call.name = name /\ err = "none"

\* the rows calc_rank ranked, seen from outside: the historical rows of the
\* store that was passed in, and its target when the grid has one row more
RankedRows == IF Len(ds.rank) = Len(inp.tas_base) + 1
              THEN Append(inp.tas_base, inp.tas)
              ELSE inp.tas_base

\* all cells of a column are defined and no two of them are equal
DistinctColumn(col) ==
    /\ \A i \in 1..Len(col) : isfinite(col[i])
    /\ \A i, j \in 1..Len(col) : i # j => col[i] # col[j]

\* number of cells of a column that are strictly greater than cell i
Above(col, i) == Cardinality({j \in 1..Len(col) : Greater(col[j], col[i])})

\* C1: after calc_rank the rank grid has one row per historical year when
\* the target year is on the year axis and one more, for the target, when it
\* is later than the last year; in every column whose cells are all defined
\* and pairwise distinct each cell's rank is 1 + the number of strictly
\* greater cells, so the ranks are a permutation of 1..N with the maximum
\* at rank 1 and the minimum at rank N.
C1_RankIsOnePlusGreater ==
    Returned("calc_rank") =>
        /\ YearIndex(inp.year_axis, inp.attrs.year) # 0
              => Len(ds.rank) = Len(inp.tas_base)
        /\ inp.attrs.year > inp.year_axis[Len(inp.year_axis)]
              => Len(ds.rank) = Len(inp.tas_base) + 1
        /\ \A d \in Days :
              LET col == Column(RankedRows, d)
                  N   == Len(col)
              IN  DistinctColumn(col) =>
                    /\ \A i \in 1..N : ds.rank[i][d] = Num(1 + Above(col, i))
                    /\ {ds.rank[i][d] : i \in 1..N} = {Num(k) : k \in 1..N}
                    /\ \A i \in 1..N :
                          /\ col[i] = nanmax(col) => ds.rank[i][d] = Num(1)
                          /\ col[i] = nanmin(col) => ds.rank[i][d] = Num(N)

\* C1 witness: an out-of-sample target lies between two historical years on
\* some day and is ranked 2 of 3 there, the lower year 3 and the higher 1.
C1_Witness ==
    /\ Returned("calc_rank")
    /\ Len(ds.rank) = Len(inp.tas_base) + 1
    /\ \E d \in Days : \E lo, hi \in 1..Len(inp.tas_base) :
          /\ DistinctColumn(Column(RankedRows, d))
          /\ Greater(inp.tas[d], inp.tas_base[lo][d])
          /\ Greater(inp.tas_base[hi][d], inp.tas[d])
          /\ ds.rank[Len(ds.rank)][d] = Num(2)
          /\ ds.rank[lo][d] = Num(3)
          /\ ds.rank[hi][d] = Num(1)

\* C2: in the rank grid an undefined cell never has a better (smaller) rank
\* than a defined cell of the same column, so the defined maximum of a
\* column has rank 1.  (The code sorts NaN last in ascending order, which
\* the inversion turns into rank 1.)
C2_UndefinedNeverAhead ==
    Returned("calc_rank") =>
        \A d \in Days :
            LET col == Column(RankedRows, d)
            IN  \A i, j \in 1..Len(col) :
                    (~isfinite(col[i]) /\ isfinite(col[j]))
                        => Greater(ds.rank[i][d], ds.rank[j][d])

\* C3: for a requested year that is not on the year axis the target is
\* appended, so the rank grid has one row more than the archive and the
\* target year is a label of its year axis; for a year on the axis nothing
\* is appended.  (calc_rank appends only for a year later than the last.)
C3_OffAxisYearIsAppended ==
    Returned("calc_rank") =>
        IF YearIndex(inp.year_axis, inp.attrs.year) = 0
        THEN /\ Len(ds.rank) = Len(inp.tas_base) + 1
             /\ YearIndex(ds.year_axis, ds.attrs.year) # 0
        ELSE Len(ds.rank) = Len(inp.tas_base)

\* plot_main got as far as plot_target (the title's date could be built)
Plotted == call.name = "plot_main" /\ err # "ValueError"

\* the rows of the historical grid that belong to other years than the target
Others == {i \in 1..Len(ds.tas_base) : ds.year_axis[i] # ds.attrs.year}

\* pool(d): the defined historical values of day d of all years but the target
Pool(d) == {ds.tas_base[i][d] : i \in {j \in Others : isfinite(ds.tas_base[j][d])}}

\* the branch table of the threshold t (in tenths) for day d
Table(t, d) ==
    CASE t = Tenth  -> Pool(d) # {} /\ \A x \in Pool(d) : Geq(ds.tas[d], x)
      [] t = -Tenth -> Pool(d) # {} /\ \A x \in Pool(d) : Leq(ds.tas[d], x)
      [] t = 0      -> \E x \in Pool(d) : Geq(ds.tas[d], x)
      [] t > 0 /\ t < Tenth ->
            Geq(ds.tas[d], quantile(Column(OtherYears(ds), d), t))
      [] t < 0 /\ t > -Tenth ->
            Leq(ds.tas[d], quantile(Column(OtherYears(ds), d), -t))

\* C4: plot_main with threshold t flags day d exactly when the branch of the
\* table that t selects holds for target[d] against pool(d): 1 compares with
\* the maximum, -1 and 0 with the minimum, 0 < t < 1 and -1 < t < 0 with the
\* quantile |t|; for |t| > 1 nothing is marked and no attribute is set; a day
\* without a target value is never flagged.
C4_BranchTable ==
    Plotted =>
        IF Abs(call.val) > Tenth
        THEN /\ ~cls.marked
             /\ cls.mask = {}
             /\ cls.unseen = {}
             /\ ~cls.show_record
             /\ ~ds.attrs.show_unseen
        ELSE /\ cls.marked
             /\ \A d \in Days :
                   /\ d \in cls.mask <=> Table(call.val, d)
                   /\ ~isfinite(ds.tas[d]) => d \notin cls.mask

\* C4 witness: a quantile threshold flags some days with a target value and
\* not others, in a store whose target has an undefined day.
C4_Witness ==
    /\ Plotted
    /\ call.val = 5
    /\ cls.mask # {}
    /\ \E d \in Days : isfinite(ds.tas[d]) /\ d \notin cls.mask
    /\ \E d \in Days : ~isfinite(ds.tas[d])

\* the target year is a year of the archive (nothing was appended for it)
InSample ==
    /\ Len(ds.year_axis) = NYears
    /\ YearIndex(ds.year_axis, ds.attrs.year) # 0

\* C5: for an in-sample target and threshold 1, day d is flagged exactly when
\* some other year has a value on d and target[d] is >= all other years'
\* values; the target's own row is not compared with.  So a day on which the
\* target holds the maximum of the column is flagged and a day on which
\* another year is strictly higher is not.
C5_SelfExclusion ==
    (Plotted /\ call.val = Tenth /\ InSample) =>
        \A d \in Days :
            LET seen == {i \in Others : isfinite(ds.tas_base[i][d])}
            IN  /\ d \in cls.mask <=>
                      /\ seen # {}
                      /\ \A i \in seen : Geq(ds.tas[d], ds.tas_base[i][d])
                /\ (/\ seen # {}
                    /\ isfinite(ds.tas[d])
                    /\ ds.tas[d] = nanmax(Column(ds.tas_base, d)))
                      => d \in cls.mask
                /\ (\E i \in seen : Greater(ds.tas_base[i][d], ds.tas[d]))
                      => d \notin cls.mask

\* C5 witness: an in-sample year is plotted with threshold 1; on one day it
\* is strictly above the other years and flagged, on another day another
\* year is strictly higher and the day is not flagged.
C5_Witness ==
    /\ Plotted /\ call.val = Tenth /\ InSample
    /\ \E d \in cls.mask :
          \A i \in Others : Greater(ds.tas[d], ds.tas_base[i][d])
    /\ \E d \in Days \ cls.mask :
          \E i \in Others : Greater(ds.tas_base[i][d], ds.tas[d])

\* number of years of the store that have a defined value on day d: the
\* historical years by their row, the target year by the target series
DefinedYears(d) ==
    Cardinality({i \in 1..Len(ds.year_axis) :
                    \/ isfinite(ds.tas_base[i][d])
                    \/ ds.year_axis[i] = ds.attrs.year /\ isfinite(ds.tas[d])})

\* C6: the last-day summary is anomaly = target[doy] - median of the
\* historical column, rank = the rank grid's cell of (target year, doy) and
\* total = the number of years with a defined value on doy, with
\* 1 <= rank <= total.  (The code reports the length of the year axis.)
C6_LastDaySummary ==
    (call.name = "plot_main" /\ cls.annotated) =>
        LET doy == ds.attrs.last_doy
        IN  /\ cls.anomaly = Sub(ds.tas[doy], median(Column(ds.tas_base, doy)))
            /\ cls.rank = ds.rank[YearIndex(ds.year_axis, ds.attrs.year)][doy]
            /\ cls.total = DefinedYears(doy)
            /\ Geq(cls.rank, Num(1))
            /\ Leq(cls.rank, Num(cls.total))

\* the days 1..d of a row are all defined
DefinedUpTo(row, d) == \A e \in 1..d : isfinite(row[e])

\* the plain sum of the days 1..d of a row
RECURSIVE SumUpTo(_, _)
SumUpTo(row, d) == IF d = 0 THEN Num(0) ELSE Add(SumUpTo(row, d - 1), row[d])

\* out is the running mean of row on every day up to which row is defined
RunningMean(row, out) ==
    \A d \in Days :
        DefinedUpTo(row, d) => out[d] = Scaled(SumUpTo(row, d), 1, d)

\* C7: calc_cummean replaces, in every historical row and in the target, the
\* value of day d by (sum of the days 1..d) / d whenever the days 1..d of
\* that row are all defined.
C7_RunningMean ==
    Returned("calc_cummean") =>
        /\ \A i \in 1..Len(inp.tas_base) :
              RunningMean(inp.tas_base[i], ds.tas_base[i])
        /\ RunningMean(inp.tas, ds.tas)

\* C7 witness: a historical year 2, 4, 6, ... has become 2, 3, 4, ... and the
\* target has a defined running mean on its last day.
C7_Witness ==
    /\ Returned("calc_cummean")
    /\ \E i \in 1..Len(inp.tas_base) :
          /\ inp.tas_base[i] = [d \in Days |-> Num(2 * d)]
          /\ ds.tas_base[i] = [d \in Days |-> Num(d + 1)]
    /\ DefinedUpTo(inp.tas, NDays)
    /\ inp.tas[1] # inp.tas[NDays]
    /\ isfinite(ds.tas[NDays])

\* once a day of row is undefined, out is undefined from that day on
GapPropagates(row, out) ==
    \A g, d \in Days : (g <= d /\ ~isfinite(row[g])) => ~isfinite(out[d])

\* C8: missing values propagate through calc_cummean: when day g of a
\* historical row or of the target is undefined in the input, the output of
\* that row is undefined on every day d >= g.  (The cumulative sum of the
\* code skips missing values, so the mean continues past a gap.)
C8_GapPropagates ==
    Returned("calc_cummean") =>
        /\ \A i \in 1..Len(inp.tas_base) :
              GapPropagates(inp.tas_base[i], ds.tas_base[i])
        /\ GapPropagates(inp.tas, ds.tas)

\* C9: a calc_cummean step returns a store with the cummean flag set, with
\* the region, year and last_doy of its input, and with a target that is
\* undefined after last_doy; the store passed in is the same after the call
\* as before it, without the flag.
C9_CummeanFrame ==
    [][(call'.name = "calc_cummean" /\ err' = "none") =>
          /\ ds'.attrs.cummean
          /\ ds'.attrs.region = ds.attrs.region
          /\ ds'.attrs.year = ds.attrs.year
          /\ ds'.attrs.last_doy = ds.attrs.last_doy
          /\ \A d \in Days : d > ds.attrs.last_doy => ~isfinite(ds'.tas[d])
          /\ inp' = ds
          /\ ~inp'.attrs.cummean]_vars

\* C9 witness: calc_cummean has run on a store that was cut before the end of
\* its data; the input still holds the raw values, the result the means.
C9_Witness ==
    /\ Returned("calc_cummean")
    /\ inp.attrs.last_doy \in 1..(NDays - 1)
    /\ isfinite(inp.tas[inp.attrs.last_doy])
    /\ ds.attrs.cummean /\ ~inp.attrs.cummean
    /\ ds.tas # inp.tas
    /\ ds.attrs.region = "global"

\* C10: a set_last_doy step with cutoff doy returns a store whose target is
\* undefined after doy and as in the input up to doy, whose last_doy is doy
\* and whose historical grid, rank grid and other attributes are the
\* input's; the store passed in is the same after the call as before it.
C10_TruncateFrame ==
    [][(call'.name = "set_last_doy" /\ err' = "none") =>
          /\ \A d \in Days :
                ds'.tas[d] = IF d <= call'.val THEN ds.tas[d] ELSE NaN
          /\ ds'.attrs = [ds.attrs EXCEPT !.last_doy = call'.val]
          /\ ds'.year_axis = ds.year_axis
          /\ ds'.tas_base = ds.tas_base
          /\ ds'.rank = ds.rank
          /\ inp' = ds]_vars

\* C10 witness: an iteration of the per-day loop has cut a ranked store
\* before its last day; the store it cut still has its full target.
C10_Witness ==
    /\ Returned("set_last_doy")
    /\ driver = "load_plot_all"
    /\ inp.has_rank
    /\ call.val < inp.attrs.last_doy
    /\ isfinite(inp.tas[inp.attrs.last_doy])
    /\ ~isfinite(ds.tas[inp.attrs.last_doy])
    /\ ds.attrs.last_doy = call.val

\* C11: truncation is idempotent: a set_last_doy call with cutoff d on the
\* result of a set_last_doy call with the same cutoff d returns a store that
\* equals its input in the target series, the historical grid and all
\* attributes (and in everything else).
C11_TruncateIdempotent ==
    [][(/\ call.name = "set_last_doy" /\ err = "none"
        /\ call'.name = "set_last_doy" /\ err' = "none"
        /\ call'.val = call.val) =>
          /\ ds'.tas = ds.tas
          /\ ds'.tas_base = ds.tas_base
          /\ ds'.attrs = ds.attrs
          /\ ds' = ds]_vars

\* C11 witness: a third call, set_last_doy, has returned for an in-sample
\* year whose store had been cut before its last day at the same cutoff (the
\* second call, as add_target_year stores the full year); its result is its
\* input.
C11_Witness ==
    /\ Returned("set_last_doy")
    /\ ncalls = 3
    /\ YearIndex(ArchiveYears, ds.attrs.year) # 0
    /\ call.val \in 1..(FullDoy - 1)
    /\ inp.attrs.last_doy = call.val
    /\ \A d \in Days : isfinite(inp.tas[d]) <=> d <= call.val
    /\ ds = inp

\* the thresholds for which plot_target evaluates the two markings
Marking == {t \in Exceedances : Abs(t) <= Tenth}

\* C12: the unseen classification does not depend on the threshold: when
\* plot_main has run with a threshold within [-1, 1], mark_unseen on the same
\* store with any other such threshold (0 included) gives the same days, the
\* same returned result (a mask or nothing) and the same show_unseen
\* attribute.  (mark_unseen receives the threshold as its flag always, and
\* 0 counts as not set.)
C12_UnseenIndependentOfThreshold ==
    (Plotted /\ call.val \in Marking) =>
        \A t \in Marking :
            LET other == mark_unseen([ds EXCEPT !.attrs.show_unseen = FALSE], t)
            IN  /\ other.days = cls.unseen
                /\ other.returned = cls.unseen_returned
                /\ other.arg.attrs.show_unseen = ds.attrs.show_unseen

\* all cells of a column are defined and equal
EqualColumn(col) ==
    /\ \A i \in 1..Len(col) : isfinite(col[i])
    /\ \A i, j \in 1..Len(col) : col[i] = col[j]

\* C13: tie policy of calc_rank: in a column in which all N years have the
\* same value every cell receives the same rank.  (The double argsort gives
\* the N cells the N ranks 1..N, in the order the sort leaves them in.)
C13_TiesShareRank ==
    Returned("calc_rank") =>
        \A d \in Days :
            EqualColumn(Column(RankedRows, d)) =>
                \A i, j \in 1..Len(ds.rank) : ds.rank[i][d] = ds.rank[j][d]

\* C14: the cumulative transform takes effect at most once per loaded store:
\* a calc_cummean call on a store whose cummean flag is set is rejected or
\* returns the store as it is, so no store holds a cumulative mean of
\* cumulative means.  (calc_cummean does not look at the flag.)
C14_CummeanAtMostOnce ==
    [][(call'.name = "calc_cummean" /\ ds.attrs.cummean) =>
          (err' # "none" \/ ds' = ds)]_vars

\* the last-day summary has nothing to work with on day doy: the target is
\* undefined there or no historical year has a value there
MissingOn(doy) ==
    \/ ~isfinite(ds.tas[doy])
    \/ Finite(Column(ds.tas_base, doy)) = {}

\* C15: when plot_main comes to the last-day summary of a store whose target
\* year has a row in the rank grid, and the target value of day last_doy is
\* undefined or no historical year has a value on that day, the summary
\* fails with a MissingData error and gives no anomaly and rank; an
\* undefined anomaly is never reported together with a rank.  (The code has
\* no such check and annotates "nan" with the rank.)
C15_LastDayNeedsData ==
    (/\ call.name = "plot_main"
     /\ ds.attrs.last_doy \in Days
     /\ YearIndex(ds.year_axis, ds.attrs.year) # 0) =>
        /\ MissingOn(ds.attrs.last_doy) => (err = "MissingData" /\ ~cls.annotated)
        /\ cls.annotated => isfinite(cls.anomaly)

\* C16: set_last_doy rejects a cutoff outside [1, 366] (1..LeapDoy on the
\* model's axis): such a call ends with an InvalidArgument error and yields
\* no new store, so the last_doy of a store is never outside that range.
\* (set_last_doy checks nothing and stores any integer.)
C16_CutoffInRange ==
    /\ (call.name = "set_last_doy" /\ call.val \notin 1..LeapDoy)
          => (err = "InvalidArgument" /\ ds = inp)
    /\ ds.attrs.last_doy # NoDoy => ds.attrs.last_doy \in 1..LeapDoy

\* C17: add_target_year fails only for an out-of-sample year whose fetched
\* series has no defined value, and then with a DataUnavailable error and
\* with the store left as it was: no year, no last_doy and no target series
\* are recorded.  (The code fails with the IndexError of an index into an
\* empty array; it has no guard of its own.)
C17_NoDataIsReported ==
    (call.name = "add_target_year" /\ err # "none") =>
        /\ err = "DataUnavailable"
        /\ YearIndex(ds.year_axis, call.val) = 0
        /\ ~ds.has_tas
        /\ ds.attrs.year = NoYear
        /\ ds.attrs.last_doy = NoDoy

\* C18: in main.py's loop over the requested regions a failure in one region
\* does not end the run: the loop starts on every later region of the list
\* as well, so eventually every requested region has been processed, to
\* completion or to its failure, and none is left to start on.  (No
\* exception is caught in main.py; the first one ends the process with all
\* later regions left.)
C18_EveryRegionSettled == <>(todo = << >>)

\* the figures of day d of a load_plot_all run j
DayFigures(j, d) ==
    {[kind |-> k, ext |-> ".jpg", region |-> j.region, year |-> j.year,
      doy |-> d, stepsize |-> ""] : k \in {"daily", "cummean", "both"}}

\* the output files of a load_plot_all run j: three figures for every day
\* 1..last_doy, the two data files, and the three gifs when they are asked for
RunOutputs(j) ==
    UNION {DayFigures(j, d) : d \in 1..j.last_doy}
      \cup {[kind |-> k, ext |-> ".nc", region |-> j.region, year |-> j.year,
             doy |-> j.last_doy, stepsize |-> ""] : k \in {"daily", "cummean"}}
      \cup (IF j.produce_gif
            THEN {[kind |-> k, ext |-> ".gif", region |-> j.region, year |-> j.year,
                   doy |-> j.last_doy, stepsize |-> "auto"] :
                     k \in {"daily", "cummean", "both"}}
            ELSE {})

\* the output files of the batch operation name with arguments j on a disk
\* that holds existing: a gif is an output when there is a figure to make it of
Outputs(name, j, existing) ==
    CASE name = "preprocess_region" ->
            {[kind |-> "preprocessed", ext |-> ".nc", region |-> j.region,
              year |-> NoYear, doy |-> NoDoy, stepsize |-> ""]}
      [] name = "load_plot_all" -> RunOutputs(j)
      [] name = "combine_to_gif" ->
            IF \E f \in existing : /\ f.kind = j.kind /\ f.ext = ".jpg"
                                   /\ f.region = j.region /\ f.year = j.year
            THEN {[kind |-> j.kind, ext |-> ".gif", region |-> j.region,
                   year |-> j.year, doy |-> j.last_doy, stepsize |-> j.stepsize]}
            ELSE {}

\* C19: re-running the batch operations is idempotent.  For every run of
\* preprocess_region, load_plot_all or combine_to_gif: with overwrite false
\* no file that exists is written; after a completed run all its output
\* files exist; a run with overwrite false whose output files all exist
\* writes no file, and so does a run with overwrite false that follows a
\* completed run of the same operation with the same arguments on the same
\* data; a completed run with overwrite true writes every one of its output
\* files.
C19_RerunIsIdempotent ==
    [][LET out == Outputs(call'.name, job', files)
       IN  /\ ~job'.overwrite => written' \cap files = {}
           /\ err' = "none" => out \subseteq files'
           /\ (~job'.overwrite /\ out \subseteq files) => written' = {}
           /\ ( /\ call.name = call'.name
                /\ err = "none"
                /\ ~job'.overwrite
                /\ [job' EXCEPT !.overwrite = FALSE, !.raises = "none"]
                     = [job EXCEPT !.overwrite = FALSE, !.raises = "none"] )
                => written' = {}
           /\ (job'.overwrite /\ err' = "none") => written' = out
           /\ files' = files \cup written']_vars

\* C19 witness: a load_plot_all run with overwrite false and gifs asked for,
\* for an out-of-sample year with data up to its second-last day or further,
\* has completed without writing anything, as every output file of it was on
\* disk already.
C19_Witness ==
    /\ call.name = "load_plot_all"
    /\ err = "none"
    /\ ~job.overwrite
    /\ job.produce_gif
    /\ job.year > ArchiveYears[NYears]
    /\ job.last_doy >= NDays - 1
    /\ ncalls >= 2
    /\ written = {}
    /\ RunOutputs(job) \subseteq files
    /\ Cardinality(RunOutputs(job)) = 3 * job.last_doy + 5

\* C20: the rank grid is recomputed whenever its store changes.  In every
\* driver the store handed to plot_main comes straight from calc_rank, with
\* no set_last_doy or calc_cummean between the two, and calc_rank leaves the
\* store it is given as it was.
C20_RankIsFresh ==
    [][/\ call'.name = "plot_main" => call.name = "calc_rank"
       /\ call'.name = "calc_rank" => inp' = ds]_vars

\* the days on which the target of a store has a value
DefinedDays(store) == {d \in Days : isfinite(store.tas[d])}

\* a call the claim C21 is about: add_target_year, calc_cummean, or
\* set_last_doy with a cutoff that is a day of the axis
TargetCall(c) ==
    \/ c.name \in {"add_target_year", "calc_cummean"}
    \/ c.name = "set_last_doy" /\ c.val \in 1..FullDoy

\* C21: after add_target_year and after every set_last_doy and calc_cummean
\* call that follows it, last_doy names a day on which the target is
\* defined, and the target is defined only on days <= last_doy on which the
\* loaded target year had a raw value: the days with a value after
\* set_last_doy or calc_cummean are days that had one before the call.
C21_LastDoyIsDefinedDay ==
    [][(TargetCall(call') /\ err' = "none") =>
          /\ ds'.attrs.last_doy \in DefinedDays(ds')
          /\ \A d \in DefinedDays(ds') : d <= ds'.attrs.last_doy
          /\ call'.name # "add_target_year" =>
                DefinedDays(ds') \subseteq DefinedDays(ds)]_vars

\* the row of the target year in the grids of a store, 0 when it has none
TargetRow(store) == YearIndex(store.year_axis, store.attrs.year)

\* the outcome of the sorts that gave a store its rank grid
SortsOf(store) == [day \in Days |-> Column(store.rank, day)]

\* argsort is a function of the column it sorts: two rankings of grids x and
\* y sort every column they have in common the same way
SameSort(x, colsx, y, colsy) ==
    \A day \in Days : Column(x, day) = Column(y, day) => colsx[day] = colsy[day]

\* what the two orders have to agree on for the cutoff d
Agree(a, b, d) ==
    /\ a.tas = b.tas
    /\ a.tas_base = b.tas_base
    /\ a.attrs.last_doy = b.attrs.last_doy
    /\ a.attrs.cummean = b.attrs.cummean
    /\ TargetRow(a) = TargetRow(b)
    /\ TargetRow(a) # 0 =>
          \A day \in 1..d : a.rank[TargetRow(a)][day] = b.rank[TargetRow(b)][day]

\* the store a reached, by one order, agrees with every store the other
\* order can reach from the rank input m by a ranking with the same sorts
AgreesWithRanked(a, ain, m, d, batch_order) ==
    \A cols \in RankColumns(RankInput(m), NDays) :
        SameSort(RankInput(m), cols, ain, SortsOf(a)) =>
            Agree(a, IF batch_order THEN BatchRanked(m, d, cols) ELSE AppRanked(m, cols), d)

\* C22: the two operation orders of the drivers agree.  For every store s
\* left by add_target_year and every cutoff d in 1..last_doy of s,
\* set_last_doy(calc_rank(calc_cummean(s)), d) and
\* calc_rank(calc_cummean(set_last_doy(s, d))) have the same target series,
\* the same historical grid, the same last_doy and cummean flag, and the
\* same rank of the target year on every day <= d.
C22_OrdersAgree ==
    /\ call.name = "load_plot_all" =>
          AgreesWithRanked(ds, RankInput(BatchMean(inp)), AppMean(inp, call.val),
                           call.val, FALSE)
    /\ call.name = "plot" =>
          AgreesWithRanked(ds, RankInput(AppMean(inp, call.val)), BatchMean(inp),
                           call.val, TRUE)

\* C22 witness: the batch order has truncated a cumulative, ranked store of
\* an out-of-sample year before the last day with data, masking a value of
\* the target that took part in the ranking, and the target is ranked on
\* every day up to the cutoff, on one of them on a par with another year.
C22_Witness ==
    /\ call.name = "load_plot_all"
    /\ inp.attrs.year > ArchiveYears[NYears]
    /\ call.val < inp.attrs.last_doy
    /\ ds.attrs.cummean
    /\ ds.has_rank
    /\ TargetRow(ds) = NYears + 1
    /\ \E day \in Days : day > call.val /\ isfinite(BatchMean(inp).tas[day])
                                         /\ ~isfinite(ds.tas[day])
    /\ \E day \in 1..call.val, i \in 1..NYears :
          /\ isfinite(ds.tas[day])
          /\ ds.tas_base[i][day] = ds.tas[day]

\* every year has a value on day d: the target, and every other year of the
\* historical grid
AllDefined(store, d) ==
    /\ isfinite(store.tas[d])
    /\ \A i \in 1..Len(store.tas_base) :
          store.year_axis[i] # store.attrs.year => isfinite(store.tas_base[i][d])

\* C23: rank and record classification agree.  After plot_main with the
\* threshold 1, on every day d <= last_doy on which all years have a value,
\* mark_exceedance has flagged d as a heat record if and only if the rank
\* grid gives the target year rank 1 on d.
C23_RecordIffRankOne ==
    (/\ call.name = "plot_main"
     /\ call.val = Tenth
     /\ err = "none"
     /\ cls.marked) =>
        \A d \in Days :
            (d <= ds.attrs.last_doy /\ AllDefined(ds, d)) =>
                (d \in cls.mask <=> ds.rank[TargetRow(ds)][d] = Num(1))

=============================================================================
